---- MODULE Spec2Model ----
(***************************************************************************)
(* pillreserves: the inventory ledger, its exact-fraction arithmetic, the  *)
(* load / mutate / store protocol of the request handlers and the display  *)
(* projection.                                                             *)
(*                                                                         *)
(* The i64 of the program is scaled down to Bits bits and keeps its        *)
(* two's-complement behaviour.  The ledgers and the amounts of the request *)
(* handlers keep every numerator, denominator and cross product inside     *)
(* that range, so no operation of the handlers wraps or panics on          *)
(* overflow; the fraction calculations draw their inputs from the whole    *)
(* range, its two ends included.                                           *)
(***************************************************************************)
EXTENDS Integers, Sequences, FiniteSets, Bags, TLC

(***************************************************************************)
(* Bounds                                                                  *)
(***************************************************************************)
\* number of requests received in one behaviour
MaxRequests == 2

\* width in bits of the signed machine integer that stands for i64
Bits == 12

\* length of the longest text given to parse_decimal on its own
MaxTextLen == 4

(***************************************************************************)
(* Integer helpers (Rust i64: `+`, `-`, `*` wrap around unless the build    *)
(* checks overflow, `/` truncates toward zero)                             *)
(***************************************************************************)
IntMin == -(2 ^ (Bits - 1))

IntMax == (2 ^ (Bits - 1)) - 1

InRange(x) == IntMin <= x /\ x <= IntMax

\* the two's-complement value of x in Bits bits
Wrap(x) == ((x - IntMin) % (2 ^ Bits)) + IntMin

Abs(x) == IF x < 0 THEN -x ELSE x

TruncDiv(a, b) == IF (a < 0) = (b < 0) THEN Abs(a) \div Abs(b) ELSE -(Abs(a) \div Abs(b))

RECURSIVE gcd(_, _)
gcd(a, b) == IF b = 0 THEN Abs(a) ELSE gcd(b, a % Abs(b))

(***************************************************************************)
(* Fraction (model.rs).  A fraction is [num, den]; PANIC stands for the    *)
(* panic!("division by zero") of Fraction::new.                            *)
(***************************************************************************)
PANIC == [num |-> 0, den |-> 0]

\* Fraction::new without the test for a denominator of 0
FractionNew_no_zero_check(num, den) ==
    LET n1 == IF den < 0 THEN Wrap(num * (-1)) ELSE num
        d1 == IF den < 0 THEN Wrap(den * (-1)) ELSE den
    IN  IF d1 = 0 THEN [num |-> n1, den |-> 0]
        ELSE LET g == Wrap(gcd(n1, d1)) IN [num |-> TruncDiv(n1, g), den |-> TruncDiv(d1, g)]

FractionNew(num, den) ==
    LET n1 == IF den < 0 THEN Wrap(num * (-1)) ELSE num
        d1 == IF den < 0 THEN Wrap(den * (-1)) ELSE den
    IN  IF d1 = 0 THEN PANIC
        ELSE LET g == Wrap(gcd(n1, d1)) IN [num |-> TruncDiv(n1, g), den |-> TruncDiv(d1, g)]

Zero == FractionNew(0, 1)

\* Ordering of partial_cmp: "Less", "Equal" or "Greater"
FractionCmp(a, b) ==
    LET l == Wrap(a.num * b.den)
        r == Wrap(a.den * b.num)
    IN  IF l < r THEN "Less" ELSE IF l = r THEN "Equal" ELSE "Greater"

FractionNeg(a) == FractionNew(Wrap(-a.num), a.den)

FractionAdd(a, b) ==
    FractionNew(Wrap(Wrap(a.num * b.den) + Wrap(b.num * a.den)), Wrap(a.den * b.den))

FractionSub(a, b) ==
    FractionNew(Wrap(Wrap(a.num * b.den) - Wrap(b.num * a.den)), Wrap(a.den * b.den))

FractionMul(a, b) == FractionNew(Wrap(a.num * b.num), Wrap(a.den * b.den))

FractionDiv(a, b) == FractionNew(Wrap(a.num * b.den), Wrap(a.den * b.num))

(***************************************************************************)
(* Text.  A string is a sequence of one-character strings.                 *)
(***************************************************************************)
DigitChars == <<"0", "1", "2", "3", "4", "5", "6", "7", "8", "9">>

IsDigit(c) == c \in {"0", "1", "2", "3", "4", "5", "6", "7", "8", "9"}

DigitVal(c) == (CHOOSE i \in 1..10 : DigitChars[i] = c) - 1

RECURSIVE DigitsValue(_)
DigitsValue(s) ==
    IF s = <<>> THEN 0 ELSE 10 * DigitsValue(SubSeq(s, 1, Len(s) - 1)) + DigitVal(s[Len(s)])

\* str::parse::<i64>: an optional sign, then at least one digit; a value outside the
\* range is an error
ParseI64(s) ==
    LET signed == s # <<>> /\ s[1] \in {"-", "+"}
        body == IF signed THEN Tail(s) ELSE s
    IN  IF body = <<>> \/ \E i \in 1..Len(body) : ~IsDigit(body[i])
        THEN [ok |-> FALSE, val |-> 0]
        ELSE LET v == IF signed /\ s[1] = "-" THEN -DigitsValue(body) ELSE DigitsValue(body)
             IN  IF InRange(v) THEN [ok |-> TRUE, val |-> v] ELSE [ok |-> FALSE, val |-> 0]

\* str::parse::<usize>: an optional plus sign, then at least one digit; a value outside the
\* range is an error
ParseUsize(s) ==
    LET body == IF s # <<>> /\ s[1] = "+" THEN Tail(s) ELSE s
    IN  IF body = <<>> \/ \E i \in 1..Len(body) : ~IsDigit(body[i])
        THEN [ok |-> FALSE, val |-> 0]
        ELSE IF DigitsValue(body) < 2 ^ Bits THEN [ok |-> TRUE, val |-> DigitsValue(body)]
        ELSE [ok |-> FALSE, val |-> 0]

RECURSIVE NatToString(_)
NatToString(n) ==
    IF n < 10 THEN <<DigitChars[n + 1]>> ELSE NatToString(n \div 10) \o <<DigitChars[(n % 10) + 1]>>

\* format!("{}", i64)
I64ToString(n) == IF n < 0 THEN <<"-">> \o NatToString(-n) ELSE NatToString(n)

\* the serialization that writes the denominator whatever it is
FractionSerialize_always_ratio(f) == I64ToString(f.num) \o <<"/">> \o I64ToString(f.den)

\* impl Serialize for Fraction
FractionSerialize(f) ==
    IF f.den = 1 THEN I64ToString(f.num) ELSE I64ToString(f.num) \o <<"/">> \o I64ToString(f.den)

\* s.split(c): the pieces of s between the occurrences of c
RECURSIVE Split(_, _)
Split(s, c) ==
    IF \A i \in 1..Len(s) : s[i] # c THEN <<s>>
    ELSE LET k == CHOOSE i \in 1..Len(s) : s[i] = c /\ \A j \in 1..(i - 1) : s[j] # c
         IN  <<SubSeq(s, 1, k - 1)>> \o Split(SubSeq(s, k + 1, Len(s)), c)

\* impl FromStr for Fraction
FractionFromStr(s) ==
    LET slash_pieces == Split(s, "/")
        bad == [ok |-> FALSE, val |-> PANIC]
    IN  IF Len(slash_pieces) = 1
        THEN LET n == ParseI64(slash_pieces[1])
             IN  IF n.ok THEN [ok |-> TRUE, val |-> FractionNew(n.val, 1)] ELSE bad
        ELSE IF Len(slash_pieces) = 2
        THEN LET n == ParseI64(slash_pieces[1])
                 d == ParseI64(slash_pieces[2])
             IN  IF n.ok /\ d.ok THEN [ok |-> TRUE, val |-> FractionNew(n.val, d.val)] ELSE bad
        ELSE bad

\* the loop of denom.checked_mul(10): Err once a product leaves the range
RECURSIVE checked_pow10(_)
checked_pow10(k) ==
    IF k = 0 THEN [ok |-> TRUE, val |-> 1]
    ELSE LET p == checked_pow10(k - 1)
         IN  IF p.ok /\ InRange(p.val * 10) THEN [ok |-> TRUE, val |-> p.val * 10]
             ELSE [ok |-> FALSE, val |-> 0]

RECURSIVE RemoveChar(_, _)
RemoveChar(s, c) ==
    IF s = <<>> THEN <<>>
    ELSE (IF s[1] = c THEN <<>> ELSE <<s[1]>>) \o RemoveChar(Tail(s), c)

\* util::parse_decimal
parse_decimal(text0) ==
    LET negate == text0 # <<>> /\ text0[1] = "-"
        text == IF negate THEN Tail(text0) ELSE text0
        dot_count == Cardinality({i \in 1..Len(text) : text[i] = "."})
        right_dot_pos == IF dot_count = 0 THEN Len(text)
                         ELSE (CHOOSE i \in 1..Len(text) :
                                 text[i] = "." /\ \A j \in 1..(i - 1) : text[j] # ".") - 1
        power_of_ten == Len(text) - right_dot_pos
        m == ParseI64(RemoveChar(text, "."))
        mantissa == IF negate THEN Wrap(-m.val) ELSE m.val
        denom == checked_pow10(power_of_ten)
    IN  IF dot_count > 1 \/ ~m.ok THEN [ok |-> FALSE, val |-> PANIC]
        \* DenominatorTooLarge
        ELSE IF ~denom.ok THEN [ok |-> FALSE, val |-> PANIC]
        ELSE [ok |-> TRUE, val |-> FractionNew(mantissa, denom.val)]

(***************************************************************************)
(* Drug (model.rs)                                                         *)
(***************************************************************************)
Seven == FractionNew(7, 1)

\* the total without the night dose
total_dosage_day_no_night(d) ==
    FractionAdd(FractionAdd(d.dosage_morning, d.dosage_noon), d.dosage_evening)

total_dosage_day(d) ==
    FractionAdd(FractionAdd(FractionAdd(d.dosage_morning, d.dosage_noon), d.dosage_evening),
                d.dosage_night)

units_per_prescription(d) == FractionMul(d.units_per_package, d.packages_per_prescription)

\* reduce without the clamp at zero
reduce_unclamped(d, subtrahend) == [d EXCEPT !.remaining = FractionSub(d.remaining, subtrahend)]

reduce(d, subtrahend) ==
    LET r == FractionSub(d.remaining, subtrahend)
    IN  [d EXCEPT !.remaining = IF FractionCmp(r, Zero) = "Less" THEN Zero ELSE r]

\* replenish that overwrites the stock with the addend
replenish_assign(d, addend) == [d EXCEPT !.remaining = addend]

replenish(d, addend) == [d EXCEPT !.remaining = FractionAdd(d.remaining, addend)]

(***************************************************************************)
(* The ledger file.  The file is a sequence of cells: the JSON writer      *)
(* emits one cell per drug and a last cell that closes the array; a cell   *)
(* that no writer has written yet inside the file's length is a hole.      *)
(* Fractions are stored in their string form.                              *)
(***************************************************************************)
FractionFields ==
    {"remaining", "dosage_morning", "dosage_noon", "dosage_evening", "dosage_night",
     "units_per_package", "packages_per_prescription"}

EndCell == [kind |-> "end"]

HoleCell == [kind |-> "hole"]

DrugSerialize(d) ==
    [k \in DOMAIN d \cup {"kind"} |->
        IF k = "kind" THEN "drug"
        ELSE IF k \in FractionFields THEN FractionSerialize(d[k]) ELSE d[k]]

DrugDeserializeOk(c) ==
    /\ c.kind = "drug"
    /\ \A k \in FractionFields : LET f == FractionFromStr(c[k]) IN f.ok /\ f.val # PANIC

DrugDeserialize(c) ==
    [k \in DOMAIN c \ {"kind"} |-> IF k \in FractionFields THEN FractionFromStr(c[k]).val ELSE c[k]]

\* serde_json::to_writer_pretty(writer, data): the cells in the order written
SerializeLedger(data) ==
    [i \in 1..(Len(data) + 1) |-> IF i <= Len(data) THEN DrugSerialize(data[i]) ELSE EndCell]

\* a write of cell c at offset pos (0-based) of file f
WriteAt(f, pos, c) ==
    [i \in 1..(IF Len(f) > pos + 1 THEN Len(f) ELSE pos + 1) |->
        IF i = pos + 1 THEN c ELSE IF i <= Len(f) THEN f[i] ELSE HoleCell]

(***************************************************************************)
(* Requests.  opts is the HashMap of the form fields that are present.     *)
(***************************************************************************)
Drug(name, remaining, morning, noon, evening, night, upp, ppp, show) ==
    [trade_name |-> name, remaining |-> remaining,
     dosage_morning |-> morning, dosage_noon |-> noon,
     dosage_evening |-> evening, dosage_night |-> night,
     units_per_package |-> upp, packages_per_prescription |-> ppp, show |-> show]

Frac(n, d) == FractionNew(n, d)

\* the ledgers the data file is authored with
InitLedgers ==
    { << Drug("A", Frac(5, 1), Frac(1, 4), Zero, Frac(1, 8), Frac(1, 8),
              Frac(30, 1), Frac(2, 1), FALSE),
         Drug("B", Zero, Zero, Zero, Zero, Zero, Frac(10, 1), Frac(1, 1), TRUE) >> }

Opts(do_val) == [do |-> do_val]

ReplenishOpts(index_str, amount_str) ==
    [do |-> "replenish"] @@ ("drug-index" :> index_str) @@ ("amount" :> amount_str)

\* the form fields of the POST requests
CommandOpts ==
    { <<>>, Opts("bogus"), Opts("take-week"), Opts("replenish"),
      [do |-> "replenish"] @@ ("drug-index" :> <<"0">>),
      ReplenishOpts(<<"x">>, <<"1">>),
      ReplenishOpts(<<"2">>, <<"1">>),
      ReplenishOpts(<<"0">>, <<"1", ".", "2", ".", "3">>),
      ReplenishOpts(<<"0">>, <<"0">>),
      ReplenishOpts(<<"0">>, <<"-", "7">>),
      ReplenishOpts(<<"1">>, <<"1">>) }

PostRequests ==
    { [method |-> "POST", body_ok |-> FALSE, opts |-> <<>>] }
    \cup { [method |-> "POST", body_ok |-> TRUE, opts |-> o] : o \in CommandOpts }

GetRequest == [method |-> "GET", body_ok |-> TRUE, opts |-> <<>>]

Requests == PostRequests \cup {GetRequest}

(***************************************************************************)
(* handle_post: the command applied to the loaded ledger.  status 0 means  *)
(* the handler goes on to store_data, 400 is respond_400.                  *)
(***************************************************************************)
\* the body of the loop over the drugs; calls lists the calls of reduce and replenish
take_week_step_shown_only(drug) ==
    LET week_dose == FractionMul(total_dosage_day(drug), Seven)
    IN  IF drug.show /\ FractionCmp(week_dose, Zero) = "Greater"
        THEN [drug |-> reduce(drug, week_dose),
              calls |-> <<[fn |-> "reduce", amount |-> week_dose]>>]
        ELSE [drug |-> drug, calls |-> <<>>]

take_week_step(drug) ==
    LET week_dose == FractionMul(total_dosage_day(drug), Seven)
    IN  IF FractionCmp(week_dose, Zero) = "Greater"
        THEN [drug |-> reduce(drug, week_dose),
              calls |-> <<[fn |-> "reduce", amount |-> week_dose]>>]
        ELSE [drug |-> drug, calls |-> <<>>]

\* the calls of the steps, in the order of the loop
RECURSIVE CallsOf(_)
CallsOf(steps) == IF steps = <<>> THEN <<>> ELSE steps[1].calls \o CallsOf(Tail(steps))

\* the loop that hands the records back in reverse order
take_week_reversed(data) ==
    LET steps == [i \in 1..Len(data) |-> take_week_step(data[i])]
    IN  [data |-> [i \in 1..Len(data) |-> steps[Len(data) + 1 - i].drug], calls |-> CallsOf(steps)]

take_week(data) ==
    LET steps == [i \in 1..Len(data) |-> take_week_step(data[i])]
    IN  [data |-> [i \in 1..Len(data) |-> steps[i].drug], calls |-> CallsOf(steps)]

\* the match on the sign of the amount that gives the amount itself to reduce
replenish_amount_no_negate(drug, amount) ==
    LET ord == FractionCmp(amount, Zero)
    IN  IF ord = "Less"
        THEN [status |-> 0, drug |-> reduce(drug, amount),
              calls |-> <<[fn |-> "reduce", amount |-> amount]>>]
        ELSE IF ord = "Equal" THEN [status |-> 400, drug |-> drug, calls |-> <<>>]
        ELSE [status |-> 0, drug |-> replenish(drug, amount),
              calls |-> <<[fn |-> "replenish", amount |-> amount]>>]

\* match amount.cmp(&Zero::zero())
replenish_amount(drug, amount) ==
    LET ord == FractionCmp(amount, Zero)
    IN  IF ord = "Less"
        THEN LET abs_amount == FractionNeg(amount)
             IN  [status |-> 0, drug |-> reduce(drug, abs_amount),
                  calls |-> <<[fn |-> "reduce", amount |-> abs_amount]>>]
        ELSE IF ord = "Equal" THEN [status |-> 400, drug |-> drug, calls |-> <<>>]
        ELSE [status |-> 0, drug |-> replenish(drug, amount),
              calls |-> <<[fn |-> "replenish", amount |-> amount]>>]

replenish_command(opts, data) ==
    LET rejected == [status |-> 400, data |-> data, calls |-> <<>>]
    IN  IF "drug-index" \notin DOMAIN opts THEN rejected
        ELSE LET index == ParseUsize(opts["drug-index"])
        IN  IF ~index.ok THEN rejected
        ELSE IF index.val >= Len(data) THEN rejected
        ELSE IF "amount" \notin DOMAIN opts THEN rejected
        ELSE LET amount == parse_decimal(opts["amount"])
        IN  IF ~amount.ok THEN rejected
        ELSE LET i == index.val + 1
                 r == replenish_amount(data[i], amount.val)
        IN  IF r.status = 400 THEN rejected
            ELSE [status |-> 0, data |-> [data EXCEPT ![i] = r.drug], calls |-> r.calls]

\* the match on "do" with take-week as the default arm
apply_command_default_arm(opts, data) ==
    IF opts["do"] = "replenish" THEN replenish_command(opts, data)
    ELSE LET w == take_week(data) IN [status |-> 0, data |-> w.data, calls |-> w.calls]

apply_command(opts, data) ==
    IF opts["do"] = "replenish" THEN replenish_command(opts, data)
    ELSE IF opts["do"] = "take-week"
    THEN LET w == take_week(data) IN [status |-> 0, data |-> w.data, calls |-> w.calls]
    ELSE [status |-> 400, data |-> data, calls |-> <<>>]

(***************************************************************************)
(* handle_get: the display projection                                      *)
(***************************************************************************)
None == [some |-> FALSE, val |-> 0]

Some(v) == [some |-> TRUE, val |-> v]

\* the quotient computed whatever the weekly dose
full_weeks_unguarded(dividend, total_dosage_week) ==
    LET q == FractionDiv(dividend, total_dosage_week)
    IN  IF q = PANIC THEN [some |-> TRUE, val |-> 0, panic |-> TRUE]
        ELSE [some |-> TRUE, val |-> TruncDiv(q.num, q.den), panic |-> FALSE]

\* Some(q.numer() / q.denom()) of q = dividend / total_dosage_week, when that is > 0
full_weeks(dividend, total_dosage_week) ==
    IF total_dosage_week.num > 0
    THEN LET q == FractionDiv(dividend, total_dosage_week)
         IN  IF q = PANIC THEN [some |-> TRUE, val |-> 0, panic |-> TRUE]
             ELSE [some |-> TRUE, val |-> TruncDiv(q.num, q.den), panic |-> FALSE]
    ELSE [some |-> FALSE, val |-> 0, panic |-> FALSE]

DrugToDisplay(i, d) ==
    LET total_dosage_week == FractionMul(total_dosage_day(d), Seven)
        rw == full_weeks(d.remaining, total_dosage_week)
        wp == full_weeks(units_per_prescription(d), total_dosage_week)
    IN  [index |-> i, drug |-> d,
         remaining_weeks |-> [some |-> rw.some, val |-> rw.val],
         weeks_per_prescription |-> [some |-> wp.some, val |-> wp.val],
         panic |-> rw.panic \/ wp.panic]

\* .filter(|dtd| dtd.drug().show()): the shown elements of s, in order
RECURSIVE FilterShow(_)
FilterShow(s) ==
    IF s = <<>> THEN <<>>
    ELSE (IF s[1].drug.show THEN <<s[1]>> ELSE <<>>) \o FilterShow(Tail(s))

\* the projection that numbers the records after the filter
data_to_show_filter_first(data) ==
    LET all == FilterShow([i \in 1..Len(data) |-> DrugToDisplay(i - 1, data[i])])
    IN  [j \in 1..Len(all) |-> [all[j] EXCEPT !.index = j - 1]]

data_to_show(data) == FilterShow([i \in 1..Len(data) |-> DrugToDisplay(i - 1, data[i])])

(***************************************************************************)
(* State                                                                   *)
(***************************************************************************)
VARIABLES
    file,         \* the cells of the data file
    tasks,        \* the bag of the handler tasks in flight: position in the handler and locals
    nreq,         \* number of requests received so far
    ledger0,      \* history: the ledger the file was authored with
    committed,    \* history: per command, how many times its store_data returned true
    torn,         \* history: a store_data has failed after it truncated the file
    stored,       \* history: the ledgers passed to store_data
    calc          \* the calculation of the specifications of the pure functions

vars == <<file, tasks, nreq, ledger0, committed, torn, stored, calc>>

\* no calculation is under way
NoCalc == [op |-> "none"]

\* the handler tasks that can be in flight at the same time
Procs == {1, 2}

\* the task spawned for request r.
\* pc: position; req: the request; data: the Vec<Drug> of the handler;
\* pos: offset of the task's open file; resp: status of the response (0: none yet);
\* loads, stores: calls of load_data / store_data that opened the file or failed to;
\* log: the last error! message of the task; shown: data_to_show;
\* loaded (history): the ledger load_data returned;
\* intact (history): no other task has modified the file since this task's load_data opened it
NewTask(r) ==
    [pc |-> "received", req |-> r, data |-> <<>>, loaded |-> <<>>, pos |-> 0,
     resp |-> 0, loads |-> 0, stores |-> 0, log |-> "", intact |-> TRUE,
     shown |-> <<>>]

Init ==
    /\ ledger0 \in InitLedgers
    /\ file = SerializeLedger(ledger0)
    /\ tasks = EmptyBag
    /\ nreq = 0
    /\ committed = [o \in CommandOpts |-> 0]
    /\ torn = FALSE
    /\ stored = {}
    /\ calc = NoCalc

Done(t, status) == [t EXCEPT !.pc = "done", !.resp = status, !.pos = 0]

\* error!(message) and respond_500()
Failed(t, message) == [Done(t, 500) EXCEPT !.log = message]

\* task t becomes u and leaves the file alone
Local(t, u) ==
    /\ tasks' = (tasks (-) SetToBag({t})) (+) SetToBag({u})
    /\ UNCHANGED <<file, ledger0, calc>>

\* task t becomes u and the file becomes f
Modify(t, u, f) ==
    /\ file' = f
    /\ tasks' = BagOfAll(LAMBDA x : [x EXCEPT !.intact = FALSE], tasks (-) SetToBag({t}))
                    (+) SetToBag({u})
    /\ UNCHANGED <<ledger0, calc>>

(***************************************************************************)
(* Actions                                                                 *)
(***************************************************************************)
\* a request arrives; handle_get / handle_post up to the call of load_data
Receive ==
    /\ BagCardinality(tasks) < Cardinality(Procs)
    /\ nreq < MaxRequests
    /\ nreq' = nreq + 1
    /\ \E r \in Requests :
          LET t == NewTask(r)
              u == IF r.method = "POST" /\ ~r.body_ok
                   THEN Failed(t, "failed to read request body")
                   ELSE IF r.method = "POST" /\ "do" \notin DOMAIN r.opts THEN Done(t, 400)
                   ELSE [t EXCEPT !.pc = "load_open"]
          IN  tasks' = tasks (+) SetToBag({u})
    /\ UNCHANGED <<file, ledger0, committed, torn, stored, calc>>

\* load_data: File::open
load_data_open(t) ==
    /\ t.pc = "load_open"
    /\ LET u == [t EXCEPT !.loads = @ + 1]
       IN  \/ Local(t, [u EXCEPT !.pc = "load_read", !.pos = 0, !.data = <<>>, !.intact = TRUE])
           \/ Local(t, Failed(u, "failed to open file"))
    /\ UNCHANGED <<nreq, committed, torn, stored>>

\* load_data: serde_json::from_reader reads on, one cell per step
load_data_read(t) ==
    /\ t.pc = "load_read"
    /\ LET syntax == Failed([t EXCEPT !.data = <<>>], "failed to load data: syntax")
       IN  \/ Local(t, Failed([t EXCEPT !.data = <<>>], "failed to load data: io"))
           \/ IF t.pos >= Len(file) THEN Local(t, syntax)
              ELSE LET c == file[t.pos + 1]
                   IN  IF c = EndCell
                       THEN Local(t, [t EXCEPT !.pc = "loaded", !.loaded = t.data, !.pos = 0])
                       ELSE IF DrugDeserializeOk(c)
                       THEN Local(t, [t EXCEPT !.data = Append(@, DrugDeserialize(c)),
                                               !.pos = @ + 1])
                       ELSE Local(t, syntax)
    /\ UNCHANGED <<nreq, committed, torn, stored>>

\* handle_post: the match on "do"
handle_post_apply(t) ==
    /\ t.pc = "loaded"
    /\ t.req.method = "POST"
    /\ LET r == apply_command(t.req.opts, t.data)
       IN  IF r.status = 400 THEN Local(t, Done(t, 400))
           ELSE Local(t, [t EXCEPT !.pc = "store_create", !.data = r.data])
    /\ UNCHANGED <<nreq, committed, torn, stored>>

\* handle_get that goes on to write the ledger back
handle_get_render_stores(t) ==
    /\ t.pc = "loaded"
    /\ t.req.method = "GET"
    /\ Local(t, [t EXCEPT !.pc = "store_create"])
    /\ UNCHANGED <<nreq, committed, torn, stored>>

\* handle_get: data_to_show and the response
handle_get_render(t) ==
    /\ t.pc = "loaded"
    /\ t.req.method = "GET"
    /\ LET all == [i \in 1..Len(t.data) |-> DrugToDisplay(i - 1, t.data[i])]
       IN  IF \E i \in 1..Len(all) : all[i].panic
           THEN Local(t, [t EXCEPT !.pc = "panicked"])
           ELSE Local(t, Done([t EXCEPT !.shown = data_to_show(t.data)], 200))
    /\ UNCHANGED <<nreq, committed, torn, stored>>

\* store_data: File::create truncates the file
store_data_create(t) ==
    /\ t.pc = "store_create"
    /\ LET u == [t EXCEPT !.stores = @ + 1]
       IN  \/ Modify(t, [u EXCEPT !.pc = "store_write", !.pos = 0], <<>>)
           \/ Local(t, Failed(u, "failed to open file"))
    /\ stored' = stored \cup {t.data}
    /\ UNCHANGED <<nreq, committed, torn>>

\* store_data: serde_json::to_writer_pretty writes on, one cell per step
store_data_write(t) ==
    /\ t.pc = "store_write"
    /\ LET cells == SerializeLedger(t.data)
           last == t.pos = Len(t.data)
       IN  \/ /\ Modify(t, IF last THEN [t EXCEPT !.pc = "stored", !.pos = 0]
                           ELSE [t EXCEPT !.pos = @ + 1],
                        WriteAt(file, t.pos, cells[t.pos + 1]))
              /\ committed' = IF last THEN [committed EXCEPT ![t.req.opts] = @ + 1]
                              ELSE committed
              /\ UNCHANGED <<nreq, torn, stored>>
           \/ /\ Local(t, Failed(t, "failed to store data"))
              /\ torn' = TRUE
              /\ UNCHANGED <<nreq, committed, stored>>

\* handle_post: the redirect to the base URL
handle_post_redirect(t) ==
    /\ t.pc = "stored"
    /\ \/ Local(t, Done(t, 302))
       \/ Local(t, Failed(t, "failed to parse base URL"))
    /\ UNCHANGED <<nreq, committed, torn, stored>>

\* the response is sent and the task ends
Finish(t) ==
    /\ t.pc \in {"done", "panicked"}
    /\ tasks' = tasks (-) SetToBag({t})
    /\ UNCHANGED <<file, ledger0, nreq, committed, torn, stored, calc>>

Next ==
    \/ Receive
    \/ \E t \in BagToSet(tasks) :
        \/ load_data_open(t)
        \/ load_data_read(t)
        \/ handle_post_apply(t)
        \/ handle_get_render(t)
        \/ store_data_create(t)
        \/ store_data_write(t)
        \/ handle_post_redirect(t)
        \/ Finish(t)

Spec == Init /\ [][Next]_vars

(***************************************************************************)
(* The fraction calculations: Fraction::new, the operators, the comparison *)
(* and the string forms, applied to fractions built from integers of the   *)
(* whole range.  checked is the build's overflow-checks setting: with it   *)
(* an overflowing `+`, `-`, `*` panics, without it the result wraps.       *)
(***************************************************************************)
\* no request handler runs
NoHandlers ==
    /\ file = <<>>
    /\ tasks = EmptyBag
    /\ nreq = 0
    /\ ledger0 = <<>>
    /\ committed = <<>>
    /\ torn = FALSE
    /\ stored = {}

\* the integers the fractions are built from
FractionInputs == {IntMin, -2, -1, 0, 1, 3, 2 ^ (Bits \div 2), IntMax}

\* an arithmetic operation of Fraction::new leaves the range
new_overflows(num, den) == den < 0 /\ (~InRange(num * (-1)) \/ ~InRange(den * (-1)))

neg_overflows(a) == ~InRange(-a.num) \/ new_overflows(Wrap(-a.num), a.den)

add_overflows(a, b) ==
    \/ ~InRange(a.num * b.den) \/ ~InRange(b.num * a.den)
    \/ ~InRange(a.num * b.den + b.num * a.den)
    \/ ~InRange(a.den * b.den)
    \/ new_overflows(Wrap(a.num * b.den + b.num * a.den), Wrap(a.den * b.den))

sub_overflows(a, b) ==
    \/ ~InRange(a.num * b.den) \/ ~InRange(b.num * a.den)
    \/ ~InRange(a.num * b.den - b.num * a.den)
    \/ ~InRange(a.den * b.den)
    \/ new_overflows(Wrap(a.num * b.den - b.num * a.den), Wrap(a.den * b.den))

mul_overflows(a, b) ==
    \/ ~InRange(a.num * b.num) \/ ~InRange(a.den * b.den)
    \/ new_overflows(Wrap(a.num * b.num), Wrap(a.den * b.den))

div_overflows(a, b) ==
    \/ ~InRange(a.num * b.den) \/ ~InRange(a.den * b.num)
    \/ new_overflows(Wrap(a.num * b.den), Wrap(a.den * b.num))

cmp_overflows(a, b) == ~InRange(a.num * b.den) \/ ~InRange(a.den * b.num)

\* what a call gives: a panic on overflow in a build that checks it, the panic of
\* Fraction::new, or the value
Outcome(checked, overflows, value) ==
    IF checked /\ overflows THEN [kind |-> "panic", message |-> "overflow"]
    ELSE IF value = PANIC THEN [kind |-> "panic", message |-> "division by zero"]
    ELSE [kind |-> "value", val |-> value]

FractionInit ==
    /\ NoHandlers
    /\ calc \in [op : {"input"}, checked : BOOLEAN,
                  n1 : FractionInputs, d1 : FractionInputs,
                  n2 : FractionInputs, d2 : FractionInputs]

\* Fraction::new(n1, d1) and Fraction::new(n2, d2)
MadeA == Outcome(calc.checked, new_overflows(calc.n1, calc.d1), FractionNew(calc.n1, calc.d1))

MadeB == Outcome(calc.checked, new_overflows(calc.n2, calc.d2), FractionNew(calc.n2, calc.d2))

\* the calculation op of the fractions a and b has given out
Calculated(op, a, b, out) ==
    /\ calc' = [op |-> op, checked |-> calc.checked, a |-> a, b |-> b, out |-> out]
    /\ UNCHANGED <<file, tasks, nreq, ledger0, committed, torn, stored>>

calc_new ==
    /\ calc.op = "input"
    /\ calc' = [op |-> "new", checked |-> calc.checked, n |-> calc.n1, d |-> calc.d1,
                out |-> MadeA]
    /\ UNCHANGED <<file, tasks, nreq, ledger0, committed, torn, stored>>

calc_neg ==
    /\ calc.op = "input" /\ MadeA.kind = "value"
    /\ LET a == MadeA.val
       IN  Calculated("neg", a, a, Outcome(calc.checked, neg_overflows(a), FractionNeg(a)))

calc_add ==
    /\ calc.op = "input" /\ MadeA.kind = "value" /\ MadeB.kind = "value"
    /\ LET a == MadeA.val
           b == MadeB.val
       IN  Calculated("add", a, b, Outcome(calc.checked, add_overflows(a, b), FractionAdd(a, b)))

calc_sub ==
    /\ calc.op = "input" /\ MadeA.kind = "value" /\ MadeB.kind = "value"
    /\ LET a == MadeA.val
           b == MadeB.val
       IN  Calculated("sub", a, b, Outcome(calc.checked, sub_overflows(a, b), FractionSub(a, b)))

calc_mul ==
    /\ calc.op = "input" /\ MadeA.kind = "value" /\ MadeB.kind = "value"
    /\ LET a == MadeA.val
           b == MadeB.val
       IN  Calculated("mul", a, b, Outcome(calc.checked, mul_overflows(a, b), FractionMul(a, b)))

calc_div ==
    /\ calc.op = "input" /\ MadeA.kind = "value" /\ MadeB.kind = "value"
    /\ LET a == MadeA.val
           b == MadeB.val
       IN  Calculated("div", a, b, Outcome(calc.checked, div_overflows(a, b), FractionDiv(a, b)))

\* a.cmp(&b): the ordering, or the panic of a build that checks overflow
calc_cmp ==
    /\ calc.op = "input" /\ MadeA.kind = "value" /\ MadeB.kind = "value"
    /\ LET a == MadeA.val
           b == MadeB.val
       IN  Calculated("cmp", a, b,
                      IF calc.checked /\ cmp_overflows(a, b)
                      THEN [kind |-> "panic", message |-> "overflow"]
                      ELSE [kind |-> "value", val |-> FractionCmp(a, b)])

\* the fraction is serialized and the string is parsed
calc_roundtrip ==
    /\ calc.op = "input" /\ MadeA.kind = "value"
    /\ LET a == MadeA.val
           text == FractionSerialize(a)
       IN  Calculated("roundtrip", a, a, [text |-> text, parsed |-> FractionFromStr(text)])

FractionNext ==
    \/ calc_new
    \/ calc_neg
    \/ calc_add
    \/ calc_sub
    \/ calc_mul
    \/ calc_div
    \/ calc_cmp
    \/ calc_roundtrip

FractionSpec == FractionInit /\ [][FractionNext]_vars

(***************************************************************************)
(* util::parse_decimal applied to the texts of up to MaxTextLen characters *)
(***************************************************************************)
DecimalChars == {"-", ".", "0", "1", "2", "5", "8"}

DecimalTexts == UNION {[1..n -> DecimalChars] : n \in 0..MaxTextLen}

DecimalInit ==
    /\ NoHandlers
    /\ calc \in [op : {"input"}, text : DecimalTexts]

calc_parse_decimal ==
    /\ calc.op = "input"
    /\ calc' = [op |-> "parse_decimal", text |-> calc.text, out |-> parse_decimal(calc.text)]
    /\ UNCHANGED <<file, tasks, nreq, ledger0, committed, torn, stored>>

DecimalNext == calc_parse_decimal

DecimalSpec == DecimalInit /\ [][DecimalNext]_vars

(***************************************************************************)
(* One request handled alone: handle_post and handle_get from the request  *)
(* to the response with no other handler in between, over ledgers that     *)
(* differ in stock, dosage and visibility.                                 *)
(***************************************************************************)
\* the records a ledger can hold under a trade name
LedgerDrugs(name) ==
    { Drug(name, r, m, Zero, Zero, n, Frac(30, 1), Frac(2, 1), s) :
        r \in {Zero, Frac(1, 2), Frac(5, 1)}, m \in {Zero, Frac(1, 4)},
        n \in {Zero, Frac(1, 8)}, s \in BOOLEAN }

AloneLedgers ==
    {<<>>} \cup { <<a>> : a \in LedgerDrugs("A") }
           \cup { <<a, b>> : a \in LedgerDrugs("A"), b \in LedgerDrugs("B") }

AloneRequests ==
    Requests \cup
    { [method |-> "POST", body_ok |-> TRUE, opts |-> o] :
        o \in { ReplenishOpts(<<"0">>, <<"1">>), ReplenishOpts(<<"1">>, <<"-", "7">>),
                ReplenishOpts(<<"0">>, <<"2", ".", "5">>) } }

AloneInit ==
    /\ ledger0 \in AloneLedgers
    /\ file = SerializeLedger(ledger0)
    /\ tasks = EmptyBag
    /\ nreq = 0
    /\ committed = <<>>
    /\ torn = FALSE
    /\ stored = {}
    /\ calc \in [op : {"input"}, req : AloneRequests]

\* the first k cells of the cells
Prefix(cells, k) == [i \in 1..k |-> cells[i]]

\* the ways store_data(data) can end: ok is its return value, file the file it leaves
store_data(data, f) ==
    LET cells == SerializeLedger(data)
    IN  {[ok |-> TRUE, file |-> cells], [ok |-> FALSE, file |-> f]}
        \cup {[ok |-> FALSE, file |-> Prefix(cells, k)] : k \in 0..Len(data)}

\* the ways load_data() can end
load_data(f) ==
    {[ok |-> FALSE, data |-> <<>>]}
    \cup (IF \A i \in 1..(Len(f) - 1) : DrugDeserializeOk(f[i])
          THEN {[ok |-> TRUE, data |-> [i \in 1..(Len(f) - 1) |-> DrugDeserialize(f[i])]]}
          ELSE {})

\* the ways handle_post can end.  loads, stores: calls of load_data / store_data;
\* loaded: the ledger loaded; data: the ledger after the command; calls: the calls of
\* reduce and replenish; stored: store_data returned true; resp: status of the response
handle_post_outcomes(req, f) ==
    LET none == [loads |-> 0, stores |-> 0, loaded |-> <<>>, data |-> <<>>, calls |-> <<>>,
                 stored |-> FALSE, resp |-> 500, file |-> f]
    IN  IF ~req.body_ok THEN {none}
        ELSE IF "do" \notin DOMAIN req.opts THEN {[none EXCEPT !.resp = 400]}
        ELSE UNION {
            IF ~l.ok THEN {[none EXCEPT !.loads = 1]}
            ELSE LET r == apply_command(req.opts, l.data)
                     applied == [none EXCEPT !.loads = 1, !.loaded = l.data,
                                             !.data = r.data, !.calls = r.calls]
                 IN  IF r.status = 400 THEN {[applied EXCEPT !.resp = 400]}
                     ELSE UNION {
                         IF ~w.ok THEN {[applied EXCEPT !.stores = 1, !.file = w.file]}
                         ELSE {[applied EXCEPT !.stores = 1, !.file = w.file,
                                               !.stored = TRUE, !.resp = code] :
                               code \in {302, 500}} :
                         w \in store_data(r.data, f) } :
            l \in load_data(f) }

handle_post ==
    /\ calc.op = "input"
    /\ calc.req.method = "POST"
    /\ \E out \in handle_post_outcomes(calc.req, file) :
          /\ calc' = [op |-> "post", req |-> calc.req, out |-> [k \in DOMAIN out \ {"file"} |-> out[k]]]
          /\ file' = out.file
    /\ UNCHANGED <<tasks, nreq, ledger0, committed, torn, stored>>

\* the ways handle_get can end
handle_get_outcomes(f) ==
    LET none == [loads |-> 1, loaded |-> <<>>, shown |-> <<>>, resp |-> 500]
    IN  UNION {
            IF ~l.ok THEN {none}
            ELSE IF \E i \in 1..Len(l.data) : DrugToDisplay(i - 1, l.data[i]).panic
            THEN {[none EXCEPT !.loaded = l.data, !.resp = 0]}
            ELSE {[none EXCEPT !.loaded = l.data, !.shown = data_to_show(l.data),
                               !.resp = 200]} :
            l \in load_data(f) }

handle_get ==
    /\ calc.op = "input"
    /\ calc.req.method = "GET"
    /\ \E out \in handle_get_outcomes(file) :
          calc' = [op |-> "get", req |-> calc.req, out |-> out]
    /\ UNCHANGED <<file, tasks, nreq, ledger0, committed, torn, stored>>

AloneNext == handle_post \/ handle_get

AloneSpec == AloneInit /\ [][AloneNext]_vars

(***************************************************************************)
(* Vocabulary of the properties                                            *)
(***************************************************************************)
\* the file holds a whole ledger: its drug cells, then the closing cell
FileComplete ==
    /\ Len(file) = Len(ledger0) + 1
    /\ file[Len(file)] = EndCell
    /\ \A i \in 1..(Len(file) - 1) : file[i].kind = "drug"

\* the ledger a load of the whole file returns (a fraction that does not parse reads as PANIC)
FileLedger == [i \in 1..(Len(file) - 1) |-> DrugDeserialize(file[i])]

\* the remaining stock of record i (1-based) as a load of the file reads it
FileRemaining(i) == FractionFromStr(file[i].remaining).val

\* the two fractions denote the same rational number
SameValue(a, b) == a.den > 0 /\ b.den > 0 /\ a.num * b.den = b.num * a.den

NonNegative(f) == f.den > 0 /\ f.num >= 0

\* store_data of task t has returned true
StoreSucceeded(t) ==
    \/ t.pc = "stored"
    \/ t.pc = "done" /\ t.stores = 1 /\ t.log \in {"", "failed to parse base URL"}

\* the ledgers that applying the commands of the bag one after another, in some order,
\* to the ledger can give
RECURSIVE SerialOutcomes(_, _)
SerialOutcomes(ledger, bag) ==
    LET left == {o \in DOMAIN bag : bag[o] > 0}
    IN  IF left = {} THEN {ledger}
        ELSE UNION { SerialOutcomes(apply_command(o, ledger).data, [bag EXCEPT ![o] = @ - 1]) :
                     o \in left }

(***************************************************************************)
(* C1: mutating requests are serializable: whenever no store is under way  *)
(* and none has failed half-way, the file holds the ledger that the        *)
(* committed commands give when applied one after another in some order to *)
(* the initial ledger.                                                     *)
(***************************************************************************)
C1_Serializable ==
    ((\A t \in BagToSet(tasks) : t.pc # "store_write") /\ ~torn)
        => (FileComplete /\ FileLedger \in SerialOutcomes(ledger0, committed))

C3_AtomicLoadStore ==
    \A t \in BagToSet(tasks) :
        /\ t.loaded # <<>> => t.loaded \in {ledger0} \cup stored
        /\ t.log = "failed to load data: syntax" => torn

(***************************************************************************)
(* C4: a store that fails is not partially applied: when the store of a    *)
(* request has failed and no other task has modified the file since the    *)
(* request loaded it, the file holds the ledger the request loaded.        *)
(***************************************************************************)
StoreFailed(t) ==
    t.pc = "done" /\ t.stores = 1 /\ t.log \in {"failed to open file", "failed to store data"}

C4_FailedStoreNotApplied ==
    \A t \in BagToSet(tasks) :
        (StoreFailed(t) /\ t.intact) => (FileComplete /\ FileLedger = t.loaded)

(***************************************************************************)
(* C5: a mutation request that fails validation performs no store and      *)
(* leaves the file as it was.                                              *)
(***************************************************************************)
AllDigits(s) == s # <<>> /\ \A i \in 1..Len(s) : IsDigit(s[i])

\* a signed decimal: an optional minus sign, digits with at most one dot among them
WellFormedDecimal(s) ==
    LET body == IF s # <<>> /\ s[1] = "-" THEN Tail(s) ELSE s
    IN  /\ \A i \in 1..Len(body) : IsDigit(body[i]) \/ body[i] = "."
        /\ Cardinality({i \in 1..Len(body) : body[i] = "."}) <= 1
        /\ \E i \in 1..Len(body) : IsDigit(body[i])

DecimalIsZero(s) == \A i \in 1..Len(s) : IsDigit(s[i]) => s[i] = "0"

\* the command fails validation against a ledger of n records
InvalidCommand(opts, n) ==
    \/ "do" \notin DOMAIN opts
    \/ opts["do"] \notin {"replenish", "take-week"}
    \/ /\ opts["do"] = "replenish"
       /\ \/ "drug-index" \notin DOMAIN opts
          \/ ~AllDigits(opts["drug-index"])
          \/ DigitsValue(opts["drug-index"]) >= n
          \/ "amount" \notin DOMAIN opts
          \/ ~WellFormedDecimal(opts["amount"])
          \/ DecimalIsZero(opts["amount"])

IsPost(t) == t.req.method = "POST" /\ t.req.body_ok

InStore(t) == t.pc \in {"store_create", "store_write", "stored"}

C5_InvalidCommandNoStore ==
    \A t \in BagToSet(tasks) :
        (IsPost(t) /\ (t.pc = "done" \/ InStore(t) \/ t.stores # 0)
                /\ InvalidCommand(t.req.opts, Len(ledger0))) =>
              /\ t.stores = 0 /\ ~InStore(t)
              /\ (t.pc = "done" /\ t.log = "") => t.resp = 400
              /\ (t.pc = "done" /\ t.loaded # <<>> /\ t.intact) =>
                     (FileComplete /\ FileLedger = t.loaded)

\* a replenish by 0 has been rejected after its load
C5_Witness ==
    \E t \in BagToSet(tasks) :
        /\ t.pc = "done" /\ t.resp = 400
        /\ t.req.opts = ReplenishOpts(<<"0">>, <<"0">>)
        /\ t.loaded = ledger0 /\ t.intact /\ file = SerializeLedger(ledger0)

(***************************************************************************)
(* C6: a replenish command that passes validation stores a ledger whose    *)
(* record[index] has remaining = old + amount for an amount > 0 and        *)
(* max(0, old - |amount|) for an amount < 0.                               *)
(***************************************************************************)
\* a + b and a * b as plain quotients
RawAdd(a, b) == [num |-> a.num * b.den + b.num * a.den, den |-> a.den * b.den]

RawMul(a, b) == [num |-> a.num * b.num, den |-> a.den * b.den]

\* new = max(0, old + delta)
IsClampedSum(new, old, delta) ==
    IF RawAdd(old, delta).num >= 0 THEN SameValue(new, RawAdd(old, delta))
    ELSE new.num = 0 /\ new.den > 0

\* the handler has applied its command to the ledger it loaded
Applied(t) == InStore(t) \/ (t.pc = "done" /\ t.stores = 1)

WeeklyDose(d) ==
    RawMul(RawAdd(RawAdd(d.dosage_morning, d.dosage_noon),
                  RawAdd(d.dosage_evening, d.dosage_night)),
           [num |-> 7, den |-> 1])

IsTakeWeekResult(new, d) ==
    IF WeeklyDose(d).num > 0
    THEN IsClampedSum(new, d.remaining, [num |-> -WeeklyDose(d).num, den |-> WeeklyDose(d).den])
    ELSE new = d.remaining

C7_TakeWeekResult ==
    \A t \in BagToSet(tasks) :
        (IsPost(t) /\ t.req.opts = Opts("take-week")) =>
              /\ t.resp # 400
              /\ Applied(t) =>
                    /\ Len(t.data) = Len(t.loaded)
                    /\ \A i \in DOMAIN t.loaded :
                          /\ IsTakeWeekResult(t.data[i].remaining, t.loaded[i])
                          /\ (StoreSucceeded(t) /\ t.intact) =>
                                (FileComplete
                                    /\ IsTakeWeekResult(FileRemaining(i), t.loaded[i]))

\* a week has been taken from a ledger with a dosed and an undosed record
C7_Witness ==
    \E t \in BagToSet(tasks) :
        /\ t.pc = "done" /\ t.resp = 302
        /\ t.req.opts = Opts("take-week")
        /\ t.loaded = ledger0
        /\ WeeklyDose(ledger0[1]).num > 0 /\ WeeklyDose(ledger0[2]).num = 0
        /\ t.intact /\ FileComplete
        /\ FileRemaining(1) = Frac(3, 2) /\ FileRemaining(2) = Zero

(***************************************************************************)
(* C8 as stated: every request that was read performs exactly one load; a  *)
(* command that succeeds performs exactly one store, after its load and    *)
(* its mutations; a display request performs no store.                     *)
(***************************************************************************)
StoreAfterLoadAndMutation(t) ==
    /\ t.req.method = "GET" => (t.stores = 0 /\ ~InStore(t))
    /\ t.stores <= 1
    /\ t.resp = 302 => t.stores = 1
    /\ (t.stores = 1 \/ InStore(t)) =>
          /\ t.loads = 1 /\ t.loaded # <<>>
          /\ t.data = apply_command(t.req.opts, t.loaded).data

C8_ExactlyOneLoad ==
    \A t \in BagToSet(tasks) :
        /\ (t.pc = "done" /\ t.req.body_ok) => t.loads = 1
        /\ StoreAfterLoadAndMutation(t)

(***************************************************************************)
(* C8 amended: a display request and a mutation request that names a       *)
(* command perform exactly one load, a mutation request without a command  *)
(* name performs none; a command that succeeds performs exactly one store, *)
(* after its load and its mutations; a display request performs no store.  *)
(***************************************************************************)
NamesCommand(t) == t.req.method = "GET" \/ (IsPost(t) /\ "do" \in DOMAIN t.req.opts)

C8_OneLoadWhenCommandNamed ==
    \A t \in BagToSet(tasks) :
        /\ t.loads <= 1
        /\ (t.pc \in {"done", "panicked"} /\ NamesCommand(t)) => t.loads = 1
        /\ (t.pc = "done" /\ ~NamesCommand(t)) =>
              (t.loads = 0 /\ t.stores = 0)
        /\ StoreAfterLoadAndMutation(t)

\* a command has succeeded next to a request without a command name
C8_Witness ==
    \E t, u \in BagToSet(tasks) :
        /\ t.pc = "done" /\ t.resp = 302
        /\ t.loads = 1 /\ t.stores = 1
        /\ u.pc = "done" /\ u.req.method = "POST" /\ u.req.body_ok
        /\ "do" \notin DOMAIN u.req.opts /\ u.loads = 0

(***************************************************************************)
(* C9: the response reflects the outcome: a valid command whose store      *)
(* succeeds is answered with a redirect, a command that fails validation   *)
(* with a client error, a failed load or store with a server error, and no *)
(* redirect is sent unless the store succeeded.                            *)
(***************************************************************************)
LoadFailed(t) ==
    t.pc = "done" /\ t.loads = 1 /\ t.stores = 0
        /\ t.log \in {"failed to open file", "failed to load data: io", "failed to load data: syntax"}

C9_ResponseReflectsOutcome ==
    \A t \in BagToSet(tasks) :
        (t.pc = "done" /\ IsPost(t)) =>
              /\ (~InvalidCommand(t.req.opts, Len(ledger0)) /\ StoreSucceeded(t)) => t.resp = 302
              /\ (InvalidCommand(t.req.opts, Len(ledger0)) /\ ~LoadFailed(t)) => t.resp = 400
              /\ (LoadFailed(t) \/ StoreFailed(t)) => t.resp = 500
              /\ t.resp = 302 => StoreSucceeded(t)

(***************************************************************************)
(* C10: the projection of a record is floor(remaining / weekly dose) and   *)
(* floor(units per prescription / weekly dose) when the weekly dose is     *)
(* > 0, both are absent otherwise, and no division by zero happens.        *)
(***************************************************************************)
\* k = floor(a / b), for b > 0
IsFloorOfQuotient(k, a, b) ==
    /\ k * (a.den * b.num) <= a.num * b.den
    /\ a.num * b.den < (k + 1) * (a.den * b.num)

IsProjection(e, d) ==
    LET units == RawMul(d.units_per_package, d.packages_per_prescription)
    IN  IF WeeklyDose(d).num > 0
        THEN /\ e.remaining_weeks.some
             /\ IsFloorOfQuotient(e.remaining_weeks.val, d.remaining, WeeklyDose(d))
             /\ e.weeks_per_prescription.some
             /\ IsFloorOfQuotient(e.weeks_per_prescription.val, units, WeeklyDose(d))
        ELSE e.remaining_weeks = None /\ e.weeks_per_prescription = None

C10_Projection ==
    \A t \in BagToSet(tasks) :
        /\ t.pc # "panicked"
        /\ (t.req.method = "GET" /\ t.pc = "done" /\ t.resp = 200) =>
              /\ \A i \in DOMAIN t.loaded :
                    IsProjection(DrugToDisplay(i - 1, t.loaded[i]), t.loaded[i])
              /\ \A j \in DOMAIN t.shown :
                    IsProjection(t.shown[j], t.shown[j].drug)

\* a ledger with a dosed record of more than a week's stock and an undosed record is displayed
C10_Witness ==
    \E t \in BagToSet(tasks) :
        /\ t.req.method = "GET" /\ t.pc = "done" /\ t.resp = 200
        /\ DrugToDisplay(0, t.loaded[1]).remaining_weeks = Some(1)
        /\ DrugToDisplay(0, t.loaded[1]).weeks_per_prescription = Some(17)
        /\ Len(t.shown) = 1 /\ t.shown[1].remaining_weeks = None

(***************************************************************************)
(* C11: every fraction value that exists, built by Fraction::new from a    *)
(* denominator other than 0 or produced by neg, add, sub, mul or div, has  *)
(* a denominator > 0 and is in lowest terms.                               *)
(***************************************************************************)
Normalized(f) == f.den > 0 /\ gcd(Abs(f.num), f.den) = 1

C11_Normalized ==
    (calc.op \in {"new", "neg", "add", "sub", "mul", "div"} /\ calc.out.kind = "value")
        => Normalized(calc.out.val)

(***************************************************************************)
(* C12: parse_decimal of a signed decimal text with at most one separator  *)
(* returns the exact value of the decimal: the digits read as one integer, *)
(* over 10 to the number of digits after the separator, with the sign;     *)
(* a text without separator gives the integer itself.                      *)
(***************************************************************************)
\* the digits of the text, its separator and sign left out
DecimalDigits(text) == SelectSeq(text, IsDigit)

\* the number of digits after the separator
FractionalDigits(text) ==
    IF \E i \in 1..Len(text) : text[i] = "."
    THEN Len(text) - (CHOOSE i \in 1..Len(text) : text[i] = ".")
    ELSE 0

\* the value of the decimal, as a plain quotient
DecimalValue(text) ==
    [num |-> IF text[1] = "-" THEN -DigitsValue(DecimalDigits(text))
             ELSE DigitsValue(DecimalDigits(text)),
     den |-> 10 ^ FractionalDigits(text)]

C12_ParseDecimalExact ==
    (calc.op = "parse_decimal" /\ WellFormedDecimal(calc.text)
        /\ InRange(DecimalValue(calc.text).num) /\ InRange(DecimalValue(calc.text).den))
        => (calc.out.ok /\ SameValue(calc.out.val, DecimalValue(calc.text)))

(***************************************************************************)
(* C13: the canonical string form round-trips: the string of a normalized  *)
(* fraction is the numeral of its numerator when the denominator is 1 and  *)
(* numerator "/" denominator otherwise, and parsing the string gives the   *)
(* fraction back.                                                          *)
(***************************************************************************)
\* s is the decimal numeral of n: a minus sign for n < 0, then the digits without leading zero
IsNumeralOf(s, n) ==
    LET body == IF n < 0 THEN Tail(s) ELSE s
    IN  /\ s # <<>> /\ (n < 0 => s[1] = "-")
        /\ AllDigits(body) /\ DigitsValue(body) = Abs(n)
        /\ (Len(body) > 1 => body[1] # "0")

C13_RoundTrip ==
    (calc.op = "roundtrip" /\ Normalized(calc.a)) =>
        LET pieces == Split(calc.out.text, "/")
        IN  /\ Len(pieces) = (IF calc.a.den = 1 THEN 1 ELSE 2)
            /\ IsNumeralOf(pieces[1], calc.a.num)
            /\ (calc.a.den # 1 => IsNumeralOf(pieces[2], calc.a.den))
            /\ calc.out.parsed.ok /\ calc.out.parsed.val = calc.a

\* the most negative numerator over 3 has gone through its string
C13_Witness ==
    /\ calc.op = "roundtrip" /\ calc.a = [num |-> IntMin, den |-> 3]
    /\ Len(Split(calc.out.text, "/")) = 2
    /\ calc.out.parsed = [ok |-> TRUE, val |-> calc.a]

(***************************************************************************)
(* C14: dividing a fraction by a fraction of value zero fails and yields   *)
(* no fraction, and so does Fraction::new with a denominator of 0.         *)
(***************************************************************************)
DivisionByZero == [kind |-> "panic", message |-> "division by zero"]

C14_DivisionByZero ==
    /\ (calc.op = "div" /\ calc.b.num = 0) => calc.out = DivisionByZero
    /\ (calc.op = "new" /\ calc.d = 0) => calc.out = DivisionByZero

\* a fraction other than zero has been divided by zero
C14_Witness ==
    /\ calc.op = "div" /\ calc.a.num # 0 /\ calc.b = Zero
    /\ calc.out.kind = "panic"

(***************************************************************************)
(* C15: the comparison is exact: for normalized fractions a and b the      *)
(* ordering computed by cross-multiplication in machine integers is the    *)
(* ordering of the two rational numbers.                                   *)
(***************************************************************************)
\* the ordering of the rational numbers a and b, for denominators > 0
TrueOrdering(a, b) ==
    IF a.num * b.den < b.num * a.den THEN "Less"
    ELSE IF a.num * b.den = b.num * a.den THEN "Equal" ELSE "Greater"

C15_ComparisonExact ==
    (calc.op = "cmp" /\ Normalized(calc.a) /\ Normalized(calc.b))
        => calc.out = [kind |-> "value", val |-> TrueOrdering(calc.a, calc.b)]

(***************************************************************************)
(* Claims about a request handled alone                                    *)
(***************************************************************************)
\* the handler has loaded the ledger and matched the command
Matched == calc.op = "post" /\ (calc.out.stores = 1 \/ (calc.out.loads = 1 /\ calc.out.resp = 400))

\* the handler has applied the command to the ledger and called store_data
Mutated == calc.op = "post" /\ calc.out.stores = 1

\* the ledger with the visibility flag of every record set to v
WithShow(data, v) == [i \in DOMAIN data |-> [data[i] EXCEPT !.show = v]]

\* C16: the visibility flag plays no part in a command: with the flag of every record
\* set or cleared the command is accepted or rejected alike and gives the same stock,
\* no command changes a flag, and a store writes the hidden records as it writes the
\* shown ones.
C16_ShowIrrelevant ==
    Matched =>
        LET o == calc.out
        IN  /\ \A v \in BOOLEAN :
                  LET r == apply_command(calc.req.opts, WithShow(o.loaded, v))
                  IN  /\ (r.status = 400) <=> (o.stores = 0)
                      /\ r.data = WithShow(o.data, v)
            /\ Len(o.data) = Len(o.loaded)
            /\ \A i \in DOMAIN o.loaded : o.data[i].show = o.loaded[i].show
            /\ \A i \in 1..Len(file) :
                  file[i].kind = "drug" => file[i].show = o.loaded[i].show
            /\ o.stored =>
                  /\ Len(file) = Len(o.loaded) + 1
                  /\ \A i \in DOMAIN o.loaded :
                        /\ file[i].kind = "drug"
                        /\ FileRemaining(i) = o.data[i].remaining

\* take-week has reduced a hidden record and the store has written it
C16_Witness ==
    /\ Mutated
    /\ calc.req.opts = Opts("take-week")
    /\ calc.out.stored
    /\ \E i \in DOMAIN calc.out.loaded :
          /\ ~calc.out.loaded[i].show
          /\ calc.out.data[i].remaining # calc.out.loaded[i].remaining
          /\ file[i].show = FALSE
          /\ FileRemaining(i) = calc.out.data[i].remaining

\* the display has been rendered
Displayed == calc.op = "get" /\ calc.out.resp = 200

\* C17: the display holds exactly the records with show = true, in the order of the
\* ledger, each with its position in the whole loaded ledger, hidden records counted;
\* a replenish of the unchanged ledger with the index as the display prints it changes
\* the stock of that record and of no other.
C17_DisplayIndex ==
    Displayed =>
        LET loaded == calc.out.loaded
            shown == calc.out.shown
        IN  /\ \A j \in DOMAIN shown :
                  /\ shown[j].index + 1 \in DOMAIN loaded
                  /\ shown[j].drug = loaded[shown[j].index + 1]
                  /\ shown[j].drug.show
            /\ \A j, k \in DOMAIN shown : j < k => shown[j].index < shown[k].index
            /\ \A i \in DOMAIN loaded : loaded[i].show => \E j \in DOMAIN shown : shown[j].index = i - 1
            /\ \A j \in DOMAIN shown : \A amount \in {<<"1">>, <<"-", "7">>} :
                  LET r == apply_command(ReplenishOpts(NatToString(shown[j].index), amount), loaded)
                      i == shown[j].index + 1
                  IN  /\ r.status = 0
                      /\ IsClampedSum(r.data[i].remaining, shown[j].drug.remaining,
                                      parse_decimal(amount).val)
                      /\ r.data[i].trade_name = shown[j].drug.trade_name
                      /\ \A k \in DOMAIN loaded \ {i} : r.data[k] = loaded[k]

\* a shown record is displayed after a hidden one, with the index that counts the hidden one
C17_Witness ==
    /\ Displayed
    /\ Len(calc.out.loaded) = 2
    /\ ~calc.out.loaded[1].show
    /\ Len(calc.out.shown) = 1
    /\ calc.out.shown[1].index = 1
    /\ calc.out.shown[1].drug.trade_name = "B"

\* C18: a command that mutates changes nothing but remaining stock: the ledger keeps its
\* records, in their order, with every field other than remaining as loaded; a replenish
\* leaves every record other than the one at its index as loaded; the file a store
\* leaves holds the same fields.
C18_OnlyRemaining ==
    Mutated =>
        LET loaded == calc.out.loaded
            data == calc.out.data
            opts == calc.req.opts
        IN  /\ Len(data) = Len(loaded)
            /\ \A i \in DOMAIN loaded :
                  /\ DOMAIN data[i] = DOMAIN loaded[i]
                  /\ \A k \in DOMAIN loaded[i] \ {"remaining"} : data[i][k] = loaded[i][k]
            /\ opts["do"] = "replenish" =>
                  \A i \in DOMAIN loaded \ {ParseUsize(opts["drug-index"]).val + 1} :
                      data[i] = loaded[i]
            /\ calc.out.stored =>
                  /\ Len(file) = Len(loaded) + 1
                  /\ \A i \in DOMAIN loaded :
                        \A k \in DOMAIN loaded[i] \ {"remaining"} :
                            file[i][k] = DrugSerialize(loaded[i])[k]

\* a replenish has changed the stock of the first of two records and has been stored
C18_Witness ==
    /\ Mutated
    /\ calc.req.opts = ReplenishOpts(<<"0">>, <<"1">>)
    /\ calc.out.stored
    /\ Len(calc.out.loaded) = 2
    /\ calc.out.data[1].remaining # calc.out.loaded[1].remaining
    /\ calc.out.data[2] = calc.out.loaded[2]
    /\ FileRemaining(1) = calc.out.data[1].remaining

\* the amount is strictly greater than 0
Positive(f) == f.den > 0 /\ f.num > 0

=============================================================================
